---------------------------- MODULE Spec2Model ----------------------------
(***************************************************************************)
(* Model of the Crypto.com DeFi wallet connector                           *)
(* (legacy_packages/react/src/wallet/wallets/defiWallet/                   *)
(* cryptoDefiWallet.tsx): the configuration factory cryptoDefiWallet, its  *)
(* create() method, the provider detector isWalletInstalled and the        *)
(* ConnectUI component, which hands its props to the shared                *)
(* extension-or-WalletConnect connection UI.                               *)
(*                                                                         *)
(* JavaScript values are encoded as follows.  A primitive is a string      *)
(* token: "undefined", "true", "false", or a quoted string such as         *)
(* "'pid-1'".  A value whose type the code inspects (options, wcModal) is  *)
(* a record carrying its typeof.  A plain object that is only spread or    *)
(* stored (walletOptions, constructor arguments) is a function from its    *)
(* own keys to tokens.  A wallet instance is identified by its position in *)
(* the sequence wallets (object identity); 0 stands for "no wallet".       *)
(***************************************************************************)
EXTENDS Naturals, Sequences, FiniteSets, TLC

VARIABLES
    configs,            \* WalletConfig objects returned by cryptoDefiWallet
    wallets,            \* CryptoDefiWallet instances returned by create()
    constructed,        \* number of `new CryptoDefiWallet` calls so far
    createLog,          \* the walletOptions each create() call was given, in order
    moduleUris,         \* the module-level object cryptoDefiWalletUris, as it is now
    injectedProvider,   \* host environment: the injected provider, or "undefined"
    platform,           \* host environment: "ios", "android" or "other"
    installedResult,    \* what the last isInstalled() call of the registry returned
    callEnv,            \* the injected provider at the time of that call
    screen,             \* connection UI: its state
    uiConfig,           \* connection UI: the config whose connectUI is mounted (0: none)
    detected,           \* what isWalletInstalled answered when the UI detected
    renderedUri,        \* connection UI: the URI encoded in the QR code
    uiUris,             \* connection UI: the walletConnectUris prop it was handed
    pending,            \* connection UI: wallet of the connect call in flight (0: none)
    connectOutcome,     \* how the connect call of this UI ended, if it has
    reported,           \* wallet the UI last handed to its setConnectedWallet prop
    connectedWallet,    \* caller: the connected wallet (0: none)
    connectionStatus,   \* caller: the connection status
    nav                 \* caller: navigation state

vars == <<configs, wallets, constructed, createLog, moduleUris,
          injectedProvider, platform, installedResult, callEnv, screen,
          uiConfig, detected, renderedUri, uiUris, pending, connectOutcome,
          reported, connectedWallet, connectionStatus, nav>>

factoryVars == <<configs, wallets, constructed, createLog, moduleUris>>
envVars == <<injectedProvider, platform>>
uiVars == <<screen, uiConfig, detected, renderedUri, uiUris, pending,
           connectOutcome, reported>>
registryVars == <<installedResult, callEnv>>
callerVars == <<connectedWallet, connectionStatus, nav>>

---------------------------------------------------------------------------
(* Bounds                                                                  *)

MaxConfigs == 1
MaxWallets == 2

---------------------------------------------------------------------------
(* JavaScript values                                                       *)

Undefined == "undefined"
JsTrue == "true"
JsFalse == "false"

\* A value of type QRModalOptions, or undefined (the field is optional).
QRModalOptionsValues == {Undefined, "{themeMode:dark}"}

\* wcModal?: { qrModalOptions?: QRModalOptions } | boolean
WcUndefined == [typeof |-> "undefined"]
WcBool(b) == [typeof |-> "boolean", val |-> b]
WcObject(q) == [typeof |-> "object", qrModalOptions |-> q]
WcModalValues ==
    {WcUndefined, WcBool(JsTrue), WcBool(JsFalse)}
        \cup {WcObject(q) : q \in QRModalOptionsValues}

\* options?: CryptoDefiWalletConfigOptions
NoOptions == [typeof |-> "undefined"]
OptionsObject(p, r, w) ==
    [typeof |-> "object", projectId |-> p, recommended |-> r, wcModal |-> w]
ProjectIdValues == {Undefined, "'pid-1'"}
RecommendedValues == {Undefined, JsTrue}
ConfigOptionsValues ==
    {NoOptions} \cup {OptionsObject(p, r, w) :
                        p \in ProjectIdValues, r \in RecommendedValues,
                        w \in WcModalValues}

UIConfigOptionsValues ==
    {NoOptions,
     OptionsObject("'pid-1'", JsTrue, WcObject("{themeMode:dark}"))}

\* JavaScript's ToBoolean on a wcModal value: undefined and false are falsy,
\* true and every object are truthy.
ToBoolean(v) ==
    CASE v.typeof = "undefined" -> FALSE
      [] v.typeof = "boolean" -> v.val = JsTrue
      [] v.typeof = "object" -> TRUE

JsBool(b) == IF b THEN JsTrue ELSE JsFalse

\* options?.projectId, options?.recommended, options?.wcModal
OptProjectId(options) ==
    IF options.typeof = "undefined" THEN Undefined ELSE options.projectId
OptRecommended(options) ==
    IF options.typeof = "undefined" THEN Undefined ELSE options.recommended
OptWcModal(options) ==
    IF options.typeof = "undefined" THEN WcUndefined ELSE options.wcModal

\* options?.wcModal?.qrModalOptions, reached only when typeof wcModal is "object"
WcQrModalOptions(w) ==
    IF w.typeof = "undefined" THEN Undefined ELSE w.qrModalOptions

\* walletOptions: the ambient options the calling framework gives create().
\* The second carries fields named like the ones create() sets itself.
WalletOptionsValues ==
    { [chains |-> "[chainA]"],
      [chains |-> "[chainB]", projectId |-> "'pid-ambient'",
       qrcode |-> JsTrue, qrModalOptions |-> "{themeMode:light}"] }

---------------------------------------------------------------------------
(* The static URI mapping                                                  *)

\* Variant: the android entry is an intent link instead of the deep link.
cryptoDefiWalletUris_androidIntent ==
    [ios |-> "dfw://", android |-> "intent://dfw", other |-> "dfw://"]

\* const cryptoDefiWalletUris = { ios: "dfw://", android: "dfw://", other: "dfw://" }
cryptoDefiWalletUris == [ios |-> "dfw://", android |-> "dfw://", other |-> "dfw://"]

NoUris == [none |-> "none"]

---------------------------------------------------------------------------
(* The wallet factory: cryptoDefiWallet(options) and its create()          *)

\* Variant: qrcode: options?.wcModal === true
QrcodeOf_strictTrue(options) == JsBool(OptWcModal(options) = WcBool(JsTrue))

\* qrcode: options?.wcModal ? true : false
QrcodeOf(options) == JsBool(ToBoolean(OptWcModal(options)))

\* Variant: the styling of an object-valued wcModal is not forwarded.
QrModalOptionsOf_notForwarded(options) == Undefined

\* qrModalOptions: typeof options?.wcModal === "object"
\*                   ? options?.wcModal?.qrModalOptions : undefined
QrModalOptionsOf(options) ==
    IF OptWcModal(options).typeof = "object"
    THEN WcQrModalOptions(OptWcModal(options))
    ELSE Undefined

\* Variant: { projectId: ..., qrcode: ..., qrModalOptions: ... }, walletOptions
\* not spread into it.
ConstructorArgs_noSpread(options, walletOptions) ==
    [k \in {"projectId", "qrcode", "qrModalOptions"} |->
        CASE k = "projectId" -> OptProjectId(options)
          [] k = "qrcode" -> QrcodeOf(options)
          [] k = "qrModalOptions" -> QrModalOptionsOf(options)]

\* Variant: { projectId: ..., qrcode: ..., qrModalOptions: ..., ...walletOptions },
\* the spread last, so that walletOptions wins.
ConstructorArgs_spreadLast(options, walletOptions) ==
    [k \in DOMAIN walletOptions \cup {"projectId", "qrcode", "qrModalOptions"} |->
        IF k \in DOMAIN walletOptions THEN walletOptions[k]
        ELSE CASE k = "projectId" -> OptProjectId(options)
               [] k = "qrcode" -> QrcodeOf(options)
               [] k = "qrModalOptions" -> QrModalOptionsOf(options)]

\* { ...walletOptions, projectId: ..., qrcode: ..., qrModalOptions: ... }:
\* the spread comes first, so the three named keys win over walletOptions.
ConstructorArgs(options, walletOptions) ==
    [k \in DOMAIN walletOptions \cup {"projectId", "qrcode", "qrModalOptions"} |->
        CASE k = "projectId" -> OptProjectId(options)
          [] k = "qrcode" -> QrcodeOf(options)
          [] k = "qrModalOptions" -> QrModalOptionsOf(options)
          [] OTHER -> walletOptions[k]]

\* new CryptoDefiWallet(args): the instance keeps what it was constructed
\* with; no session-request handler is registered on it yet.
NewCryptoDefiWallet(c, args) ==
    [config |-> c, args |-> args, wcSessionUris |-> NoUris]

\* handelWCSessionRequest(wallet, uris): registers the session-request
\* handler for the given deep-link URIs on the wallet; returns nothing.
handelWCSessionRequest(wallet, uris) ==
    [wallet EXCEPT !.wcSessionUris = uris]

\* Variant: create() without the handelWCSessionRequest call.
create_unregistered(c, options, walletOptions) ==
    NewCryptoDefiWallet(c, ConstructorArgs(options, walletOptions))

\* create(walletOptions) of the config c built from options: the instance
\* it returns.
create(c, options, walletOptions) ==
    handelWCSessionRequest(
        NewCryptoDefiWallet(c, ConstructorArgs(options, walletOptions)),
        moduleUris)

\* cryptoDefiWallet(options): the WalletConfig it returns.  create closes
\* over options; connectUI and isInstalled are the module's two functions.
cryptoDefiWallet(options) ==
    [id |-> "CryptoDefiWallet.id",
     recommended |-> OptRecommended(options),
     metaName |-> "Crypto Defi Wallet",
     options |-> options]

---------------------------------------------------------------------------
(* The provider detector                                                   *)

ProviderValues == {Undefined, "[injected provider]"}

\* getInjectedCryptoDefiWalletProvider(): the provider the host environment
\* injects, or undefined.
getInjectedCryptoDefiWalletProvider == injectedProvider

\* !!v for a value that is undefined or an object
NotNot(v) == v # Undefined

\* Variant: the first answer is remembered and returned from then on.
isWalletInstalled_cached ==
    IF installedResult = "none"
    THEN NotNot(getInjectedCryptoDefiWalletProvider)
    ELSE installedResult = JsTrue

\* function isWalletInstalled() { return !!getInjectedCryptoDefiWalletProvider(); }
isWalletInstalled == NotNot(getInjectedCryptoDefiWalletProvider)

---------------------------------------------------------------------------
(* The caller of ConnectUI: the callbacks it supplies in props             *)

StatusValues == {"disconnected", "connecting", "connected", "connect-error"}
NavValues == {"previous", "connectUI", "done", "closed"}

\* props.setConnectedWallet(w)
Caller_setConnectedWallet(w) == connectedWallet' = w

\* props.setConnectionStatus(s)
Caller_setConnectionStatus(s) == connectionStatus' = s

\* props.goBack(): back to the caller's previous navigation state; the
\* caller's wallet state is not touched
Caller_goBack ==
    /\ nav' = "previous"
    /\ UNCHANGED <<connectedWallet, connectionStatus>>

\* props.connected(): the caller's navigation takes over
Caller_connected == nav' = "done"

\* props.createWalletInstance(): a fresh instance from the config's create()
Caller_createWalletInstance(c, walletOptions) ==
    /\ wallets' = Append(wallets, create(c, configs[c].options, walletOptions))
    /\ constructed' = constructed + 1
    /\ createLog' = Append(createLog, walletOptions)

\* props.connect(): starts the asynchronous connect on the given instance
Caller_connect(w) == pending' = w

---------------------------------------------------------------------------
(* ConnectUI: the props it hands to ExtensionOrWCConnectionUI              *)

\* connect={props.connect}
UI_connect(w) == Caller_connect(w)

\* connected={props.connected}
UI_connected == Caller_connected

\* Variant: an instance made once is handed out again for later attempts.
UI_createWalletInstance_memoized(c, walletOptions) ==
    IF Len(wallets) = 0
    THEN Caller_createWalletInstance(c, walletOptions)
    ELSE UNCHANGED <<wallets, constructed, createLog>>

\* createWalletInstance={props.createWalletInstance}
UI_createWalletInstance(c, walletOptions) ==
    Caller_createWalletInstance(c, walletOptions)

\* Variant: goBack also resets the connection status before going back.
UI_goBack_resetsStatus ==
    /\ nav' = "previous"
    /\ connectionStatus' = "disconnected"
    /\ UNCHANGED connectedWallet

\* goBack={props.goBack}
UI_goBack == Caller_goBack

\* Variant: the wrapper does not pass its argument on.
UI_setConnectedWallet_dropped(w) == Caller_setConnectedWallet(0)

\* setConnectedWallet={(w) => props.setConnectedWallet(w as CryptoDefiWallet)}
UI_setConnectedWallet(w) == Caller_setConnectedWallet(w)

\* Variant: the status callback is not wired to the caller's.
UI_setConnectionStatus_unwired(s) == UNCHANGED connectionStatus

\* setConnectionStatus={props.setConnectionStatus}
UI_setConnectionStatus(s) == Caller_setConnectionStatus(s)

\* Variant: the URI mapping of another wallet is handed over.
UI_walletConnectUris_foreign ==
    [ios |-> "metamask://", android |-> "metamask://", other |-> "metamask://"]

\* walletConnectUris={cryptoDefiWalletUris}
UI_walletConnectUris == moduleUris

\* Variant: a detector that never finds the extension is handed over.
UI_isInstalled_never == FALSE

\* isInstalled={isWalletInstalled}
UI_isInstalled == isWalletInstalled

---------------------------------------------------------------------------
(* Initial state: the module is loaded, nothing has been called            *)

PlatformValues == {"ios", "android", "other"}
ScreenValues ==
    {"Idle", "Detecting", "ExtensionFlow", "QRFlow", "Connected", "Failed"}
FlowScreens == {"ExtensionFlow", "QRFlow"}

Init ==
    /\ configs = <<>>
    /\ wallets = <<>>
    /\ constructed = 0
    /\ createLog = <<>>
    /\ moduleUris = cryptoDefiWalletUris
    /\ injectedProvider \in ProviderValues
    /\ platform \in PlatformValues
    /\ installedResult = "none"
    /\ callEnv = "none"
    /\ screen = "Idle"
    /\ uiConfig = 0
    /\ detected = "none"
    /\ renderedUri = "none"
    /\ uiUris = NoUris
    /\ pending = 0
    /\ connectOutcome = "none"
    /\ reported = 0
    /\ connectedWallet = 0
    /\ connectionStatus = "disconnected"
    /\ nav = "previous"

---------------------------------------------------------------------------
(* Operations of the wallet registry on the module's exports               *)

\* cryptoDefiWallet(options)
CallCryptoDefiWallet(options) ==
    /\ Len(configs) < MaxConfigs
    /\ configs' = Append(configs, cryptoDefiWallet(options))
    /\ UNCHANGED <<wallets, constructed, createLog, moduleUris, envVars,
                   registryVars, uiVars, callerVars>>

\* config.create(walletOptions), config being configs[c]
CallCreate(c, walletOptions) ==
    /\ c \in 1..Len(configs)
    /\ Len(wallets) < MaxWallets
    /\ wallets' = Append(wallets, create(c, configs[c].options, walletOptions))
    /\ constructed' = constructed + 1
    /\ createLog' = Append(createLog, walletOptions)
    /\ UNCHANGED <<configs, moduleUris, envVars, registryVars, uiVars,
                   callerVars>>

\* config.isInstalled()
CallIsInstalled(c) ==
    /\ c \in 1..Len(configs)
    /\ installedResult' = JsBool(isWalletInstalled)
    /\ callEnv' = injectedProvider
    /\ UNCHANGED <<factoryVars, envVars, uiVars, callerVars>>

\* Variant: a UI suspended in a flow starts detecting again when the
\* extension appears or goes.
ProviderChange_redetects ==
    /\ injectedProvider' \in ProviderValues \ {injectedProvider}
    /\ screen' = IF screen \in FlowScreens THEN "Detecting" ELSE screen
    /\ UNCHANGED <<factoryVars, platform, registryVars, uiConfig, detected,
                   renderedUri, uiUris, pending, connectOutcome, reported,
                   callerVars>>

\* The host environment: the wallet extension is installed or removed.
ProviderChange ==
    /\ injectedProvider' \in ProviderValues \ {injectedProvider}
    /\ UNCHANGED <<factoryVars, platform, registryVars, uiVars, callerVars>>

---------------------------------------------------------------------------
(* The connection UI, driven by the props ConnectUI hands it               *)

\* The caller renders config.connectUI: Idle -> Detecting
OpenConnectUI(c) ==
    /\ screen = "Idle"
    /\ c \in 1..Len(configs)
    /\ screen' = "Detecting"
    /\ uiConfig' = c
    /\ uiUris' = UI_walletConnectUris
    /\ nav' = "connectUI"
    /\ UNCHANGED <<factoryVars, envVars, registryVars, detected,
                   renderedUri, pending, connectOutcome, reported,
                   connectedWallet, connectionStatus>>

\* Detecting: runs the isInstalled prop; true -> ExtensionFlow, false ->
\* QRFlow, which renders the URI of the platform from the walletConnectUris
\* prop ("other" when the platform is indeterminate).
Detect ==
    /\ screen = "Detecting"
    /\ screen' = IF UI_isInstalled THEN "ExtensionFlow" ELSE "QRFlow"
    /\ renderedUri' = IF UI_isInstalled THEN "none"
                      ELSE UI_walletConnectUris[platform]
    /\ detected' = JsBool(isWalletInstalled)
    /\ UNCHANGED <<factoryVars, envVars, registryVars, uiConfig, uiUris,
                   pending, connectOutcome, reported, callerVars>>

\* ExtensionFlow: the user approves; connect is called against a freshly
\* created wallet instance.
Approve(walletOptions) ==
    /\ screen = "ExtensionFlow"
    /\ pending = 0
    /\ Len(wallets) < MaxWallets
    /\ UI_createWalletInstance(uiConfig, walletOptions)
    /\ UI_connect(Len(wallets) + 1)
    /\ UNCHANGED <<configs, moduleUris, envVars, registryVars, screen,
                   uiConfig, detected, renderedUri, uiUris, connectOutcome,
                   reported, callerVars>>

\* QRFlow: the code is scanned; the session request reaches a freshly
\* created wallet instance, whose connect is then in flight.
ScanSessionRequest(walletOptions) ==
    /\ screen = "QRFlow"
    /\ pending = 0
    /\ Len(wallets) < MaxWallets
    /\ UI_createWalletInstance(uiConfig, walletOptions)
    /\ UI_connect(Len(wallets) + 1)
    /\ UNCHANGED <<configs, moduleUris, envVars, registryVars, screen,
                   uiConfig, detected, renderedUri, uiUris, connectOutcome,
                   reported, callerVars>>

\* The connect call succeeds: the wallet is forwarded to the caller and the
\* UI is Connected.
ConnectResolve ==
    /\ screen \in FlowScreens
    /\ pending # 0
    /\ UI_setConnectedWallet(pending)
    /\ UI_setConnectionStatus("connected")
    /\ UI_connected
    /\ reported' = pending
    /\ pending' = 0
    /\ connectOutcome' = "resolved"
    /\ screen' = "Connected"
    /\ UNCHANGED <<factoryVars, envVars, registryVars, uiConfig, detected,
                   renderedUri, uiUris>>

\* The connect call rejects: the error goes to setConnectionStatus and the
\* UI is Failed; nothing is retried.
ConnectReject ==
    /\ screen \in FlowScreens
    /\ pending # 0
    /\ UI_setConnectionStatus("connect-error")
    /\ pending' = 0
    /\ connectOutcome' = "rejected"
    /\ screen' = "Failed"
    /\ UNCHANGED <<factoryVars, envVars, registryVars, uiConfig, detected,
                   renderedUri, uiUris, reported, connectedWallet, nav>>

\* goBack from either flow: control returns to the caller; the UI is gone
\* and with it the interest in a connect call still in flight.
GoBack ==
    /\ screen \in FlowScreens
    /\ UI_goBack
    /\ screen' = "Idle"
    /\ uiConfig' = 0
    /\ detected' = "none"
    /\ renderedUri' = "none"
    /\ uiUris' = NoUris
    /\ pending' = 0
    /\ connectOutcome' = "none"
    /\ reported' = 0
    /\ UNCHANGED <<factoryVars, envVars, registryVars>>

\* Connected and Failed are terminal: the caller's navigation unmounts the UI.
Close ==
    /\ screen \in {"Connected", "Failed"}
    /\ screen' = "Idle"
    /\ uiConfig' = 0
    /\ detected' = "none"
    /\ renderedUri' = "none"
    /\ uiUris' = NoUris
    /\ connectOutcome' = "none"
    /\ reported' = 0
    /\ nav' = IF screen = "Connected" THEN "done" ELSE "closed"
    /\ UNCHANGED <<factoryVars, envVars, registryVars, pending,
                   connectedWallet, connectionStatus>>

\* The caller disconnects the wallet it holds.
Disconnect ==
    /\ screen = "Idle"
    /\ connectedWallet # 0
    /\ connectedWallet' = 0
    /\ connectionStatus' = "disconnected"
    /\ UNCHANGED <<factoryVars, envVars, registryVars, uiVars, nav>>

\* The registry's use of the factory and of the detector, every
\* configuration tried.
FactoryNext ==
    \/ \E options \in ConfigOptionsValues : CallCryptoDefiWallet(options)
    \/ \E c \in 1..MaxConfigs, wo \in WalletOptionsValues : CallCreate(c, wo)
    \/ \E c \in 1..MaxConfigs : CallIsInstalled(c)
    \/ ProviderChange

FactorySpec == Init /\ [][FactoryNext]_vars

\* The whole program, connection UI included; the UI does not read the
\* configuration options, so two configurations stand for all.
Next ==
    \/ \E options \in UIConfigOptionsValues : CallCryptoDefiWallet(options)
    \/ \E c \in 1..MaxConfigs, wo \in WalletOptionsValues : CallCreate(c, wo)
    \/ \E c \in 1..MaxConfigs : CallIsInstalled(c)
    \/ ProviderChange
    \/ \E c \in 1..MaxConfigs : OpenConnectUI(c)
    \/ Detect
    \/ \E wo \in WalletOptionsValues : Approve(wo)
    \/ \E wo \in WalletOptionsValues : ScanSessionRequest(wo)
    \/ ConnectResolve
    \/ ConnectReject
    \/ GoBack
    \/ Close
    \/ Disconnect

Spec == Init /\ [][Next]_vars

TypeOK ==
    /\ Len(configs) <= MaxConfigs
    /\ Len(wallets) <= MaxWallets
    /\ constructed \in 0..MaxWallets
    /\ Len(createLog) = Len(wallets)
    /\ \A i \in 1..Len(createLog) : createLog[i] \in WalletOptionsValues
    /\ DOMAIN moduleUris = PlatformValues
    /\ injectedProvider \in ProviderValues
    /\ platform \in PlatformValues
    /\ installedResult \in {"none", JsTrue, JsFalse}
    /\ callEnv \in {"none"} \cup ProviderValues
    /\ screen \in ScreenValues
    /\ uiConfig \in 0..Len(configs)
    /\ detected \in {"none", JsTrue, JsFalse}
    /\ pending \in 0..Len(wallets)
    /\ connectOutcome \in {"none", "resolved", "rejected"}
    /\ reported \in 0..Len(wallets)
    /\ connectedWallet \in 0..Len(wallets)
    /\ connectionStatus \in StatusValues
    /\ nav \in NavValues

---------------------------------------------------------------------------
(* Properties of the wallet factory                                        *)

\* The configuration options create() of wallet i closed over
OptionsOfWallet(i) == configs[wallets[i].config].options

\* C1: every wallet is constructed with qrcode = true iff the wcModal of
\* its configuration is true or an object, and with qrcode = false iff
\* wcModal is undefined or false, no options at all counting as undefined.
C1_QrcodeIffWcModalTruthy ==
    \A i \in 1..Len(wallets) :
        LET o == OptionsOfWallet(i)
            q == wallets[i].args["qrcode"]
        IN /\ q = JsTrue <=>
                (o # NoOptions /\ (o.wcModal = WcBool(JsTrue)
                                      \/ o.wcModal.typeof = "object"))
           /\ q = JsFalse <=>
                (o = NoOptions \/ o.wcModal = WcUndefined
                    \/ o.wcModal = WcBool(JsFalse))

C1_Witness ==
    \E i \in 1..Len(wallets) :
        /\ OptionsOfWallet(i) # NoOptions
        /\ OptionsOfWallet(i).wcModal.typeof = "object"
        /\ wallets[i].args["qrcode"] = JsTrue

\* C2: the qrModalOptions a wallet is constructed with is the one inside
\* wcModal when wcModal is an object, and undefined when wcModal is true,
\* false or undefined.
C2_QrModalOptionsOnlyFromObject ==
    \A i \in 1..Len(wallets) :
        LET o == OptionsOfWallet(i)
            q == wallets[i].args["qrModalOptions"]
        IN IF o # NoOptions /\ o.wcModal.typeof = "object"
           THEN q = o.wcModal.qrModalOptions
           ELSE q = Undefined

C2_Witness ==
    \E i \in 1..Len(wallets) :
        /\ OptionsOfWallet(i) # NoOptions
        /\ OptionsOfWallet(i).wcModal = WcObject("{themeMode:dark}")
        /\ wallets[i].args["qrModalOptions"] = "{themeMode:dark}"

\* C3: a wallet created from cryptoDefiWallet() called with no options has
\* qrcode = false and projectId = undefined.
C3_NoOptionsDefaults ==
    \A i \in 1..Len(wallets) :
        OptionsOfWallet(i) = NoOptions =>
            /\ wallets[i].args["qrcode"] = JsFalse
            /\ wallets[i].args["projectId"] = Undefined

\* create() was given walletOptions that carry a projectId and a qrcode of
\* their own.
C3_Witness ==
    \E i \in 1..Len(wallets) :
        /\ OptionsOfWallet(i) = NoOptions
        /\ wallets[i].args["chains"] = "[chainB]"
        /\ wallets[i].args["projectId"] = Undefined

\* C8: every wallet instance create() has returned carries the session
\* request handler, registered with the static URI mapping, and no instance
\* was constructed that was not returned so.
C8_AdapterRegisteredOnEveryWallet ==
    /\ constructed = Len(wallets)
    /\ \A i \in 1..Len(wallets) : wallets[i].wcSessionUris = cryptoDefiWalletUris

C8_Witness ==
    /\ Len(wallets) = MaxWallets
    /\ \A i \in 1..Len(wallets) : wallets[i].wcSessionUris = cryptoDefiWalletUris

\* C9: isInstalled() answers true iff an injected provider is present when
\* it is called, whatever it answered before, and a call changes nothing
\* but the answer handed to the caller.
C9_IsInstalledTracksEnvironment ==
    /\ [](installedResult # "none" =>
            (installedResult = JsTrue <=> callEnv = "[injected provider]")
            /\ (installedResult = JsFalse <=> callEnv = Undefined))
    /\ [][(installedResult' # installedResult \/ callEnv' # callEnv) =>
            UNCHANGED <<factoryVars, envVars, uiVars, callerVars>>]_vars

\* A call has answered true, and the provider has gone since.
C9_Witness ==
    /\ installedResult = JsTrue
    /\ callEnv = "[injected provider]"
    /\ injectedProvider = Undefined

---------------------------------------------------------------------------
(* Properties of the connection UI                                         *)

\* C4: when the provider detector answers true in Detecting, the UI goes to
\* ExtensionFlow, and a UI whose detection answered true never shows QRFlow.
C4_DetectedGoesToExtensionFlow ==
    [][/\ (screen = "Detecting" /\ detected' = JsTrue) =>
            screen' = "ExtensionFlow"
       /\ detected = JsTrue => screen' # "QRFlow"]_vars

C4_Witness ==
    /\ screen = "ExtensionFlow"
    /\ detected = JsTrue
    /\ pending # 0

\* C5: when the provider detector answers false in Detecting, the UI goes
\* to QRFlow, and on an indeterminate platform the URI it renders is the
\* "other" entry of the static URI mapping.
C5_UndetectedGoesToQRFlow ==
    [][(screen = "Detecting" /\ detected' = JsFalse) =>
            /\ screen' = "QRFlow"
            /\ platform = "other" => renderedUri' = cryptoDefiWalletUris.other]_vars

C5_Witness ==
    /\ screen = "QRFlow"
    /\ detected = JsFalse
    /\ platform = "other"
    /\ renderedUri = "dfw://"

\* C6: goBack, taken from ExtensionFlow or QRFlow, leaves the connected
\* wallet, the connection status and the wallet instances as they were and
\* puts the caller back in its previous navigation state.
C6_GoBackKeepsWalletState ==
    [][(screen \in FlowScreens /\ screen' = "Idle") =>
            /\ UNCHANGED <<connectedWallet, connectionStatus, wallets>>
            /\ nav' = "previous"]_vars

\* goBack was taken while a wallet was connected.
C6_Witness ==
    /\ screen = "Idle"
    /\ nav = "previous"
    /\ connectedWallet # 0
    /\ connectionStatus = "connected"

\* C7: a rejected connect call leaves the UI in Failed with the error given
\* to the caller's connection-status callback, and from Failed no connect
\* call is issued: the UI stays Failed until the caller removes it.
C7_RejectFailsWithoutRetry ==
    /\ [](connectOutcome = "rejected" =>
            screen = "Failed" /\ connectionStatus = "connect-error")
    /\ [][screen = "Failed" =>
            /\ pending' = 0
            /\ screen' \in {"Failed", "Idle"}]_vars

\* The connect call was rejected while an earlier wallet was connected.
C7_Witness ==
    /\ screen = "Failed"
    /\ connectOutcome = "rejected"
    /\ connectedWallet # 0

C11_ConnectedOnlyAfterFreshConnect ==
    [][/\ (screen = "ExtensionFlow" /\ pending = 0 /\ pending' # 0) =>
            /\ Len(wallets') = Len(wallets) + 1
            /\ pending' = Len(wallets')
            /\ wallets'[pending'].config = uiConfig
       /\ (screen # "Connected" /\ screen' = "Connected") =>
            /\ pending # 0
            /\ connectOutcome' = "resolved"
            /\ reported' = pending
            /\ connectedWallet' = pending]_vars

\* Connected from ExtensionFlow, on the second instance made.
C11_Witness ==
    /\ screen = "Connected"
    /\ detected = JsTrue
    /\ connectOutcome = "resolved"
    /\ connectedWallet = 2

\* C12: a UI suspended in ExtensionFlow or QRFlow leaves its flow only by
\* the connect call succeeding (Connected), by its being rejected (Failed)
\* or by the user's goBack; nothing else, the passing of time included,
\* takes it out.
C12_FlowLeftOnlyByConnectOrGoBack ==
    [][(screen \in FlowScreens /\ screen' # screen) =>
            \/ screen' = "Connected" /\ pending # 0 /\ connectOutcome' = "resolved"
            \/ screen' = "Failed" /\ pending # 0 /\ connectOutcome' = "rejected"
            \/ screen' = "Idle" /\ nav' = "previous"]_vars

\* Still in QRFlow with the connect call in flight, although the extension
\* has appeared meanwhile.
C12_Witness ==
    /\ screen = "QRFlow"
    /\ pending # 0
    /\ detected = JsFalse
    /\ injectedProvider # Undefined

---------------------------------------------------------------------------
(* Properties of the static URI mapping                                    *)

\* C13: the URI mapping always has exactly the keys ios, android and other,
\* each mapped to "dfw://", whatever has been called; every wallet create()
\* returned had its session-request handler registered with that mapping,
\* and a mounted connection UI was handed that mapping.
C13_UriMappingFixedAndShared ==
    /\ DOMAIN moduleUris = {"ios", "android", "other"}
    /\ \A k \in DOMAIN moduleUris : moduleUris[k] = "dfw://"
    /\ \A i \in 1..Len(wallets) : wallets[i].wcSessionUris = moduleUris
    /\ screen # "Idle" => uiUris = moduleUris
    /\ screen = "Idle" => uiUris = NoUris

\* cryptoDefiWallet, create, isInstalled and ConnectUI have all been used.
C13_Witness ==
    /\ Len(configs) > 0
    /\ Len(wallets) > 0
    /\ installedResult # "none"
    /\ screen = "QRFlow"
    /\ uiUris = moduleUris
    /\ wallets[1].wcSessionUris = moduleUris

---------------------------------------------------------------------------
(* Properties of create() and of the instances it makes                    *)

OwnKeys == {"projectId", "qrcode", "qrModalOptions"}

\* C14: the constructor argument of every wallet has projectId, qrcode and
\* qrModalOptions as the configuration options give them, whatever
\* walletOptions held under those names, and has every other field of
\* walletOptions, and no further field, with the value walletOptions had.
C14_OwnKeysWinOthersForwarded ==
    \A i \in 1..Len(wallets) :
        LET o == OptionsOfWallet(i)
            wo == createLog[i]
            a == wallets[i].args
            wc == IF o = NoOptions THEN WcUndefined ELSE o.wcModal
        IN /\ a["projectId"] = (IF o = NoOptions THEN Undefined ELSE o.projectId)
           /\ a["qrcode"] = (IF wc = WcBool(JsTrue) \/ wc.typeof = "object"
                             THEN JsTrue ELSE JsFalse)
           /\ a["qrModalOptions"] = (IF wc.typeof = "object"
                                     THEN wc.qrModalOptions ELSE Undefined)
           /\ DOMAIN a = DOMAIN wo \cup OwnKeys
           /\ \A k \in DOMAIN wo \ OwnKeys : a[k] = wo[k]

\* walletOptions carried a projectId, a qrcode and a qrModalOptions of its
\* own, and the configuration had a projectId and no wcModal.
C14_Witness ==
    \E i \in 1..Len(wallets) :
        /\ "projectId" \in DOMAIN createLog[i]
        /\ createLog[i]["projectId"] = "'pid-ambient'"
        /\ OptionsOfWallet(i) # NoOptions
        /\ wallets[i].args["projectId"] = "'pid-1'"
        /\ wallets[i].args["qrcode"] = JsFalse
        /\ wallets[i].args["qrModalOptions"] = Undefined
        /\ wallets[i].args["chains"] = "[chainB]"

\* C15: a cryptoDefiWallet call constructs no wallet; a create() call
\* constructs exactly one, a new instance beside the earlier ones, which
\* stay as they are; the options of a configuration never change, and all
\* instances made from one configuration have the same projectId, qrcode
\* and qrModalOptions.
C15_OneNewInstancePerCreate ==
    /\ [](\A i, j \in 1..Len(wallets) :
            wallets[i].config = wallets[j].config =>
                \A k \in OwnKeys : wallets[i].args[k] = wallets[j].args[k])
    /\ [][/\ configs' # configs =>
                /\ wallets' = wallets
                /\ constructed' = constructed
          /\ createLog' # createLog =>
                /\ Len(createLog') = Len(createLog) + 1
                /\ Len(wallets') = Len(wallets) + 1
                /\ constructed' = constructed + 1
                /\ SubSeq(wallets', 1, Len(wallets)) = wallets
          /\ constructed' = Len(wallets')
          /\ \A c \in 1..Len(configs) : configs'[c] = configs[c]]_vars

\* Two create() calls on one configuration, given different walletOptions.
C15_Witness ==
    /\ Len(wallets) = 2
    /\ wallets[1].config = wallets[2].config
    /\ createLog[1] # createLog[2]
    /\ OptionsOfWallet(1) # NoOptions
    /\ wallets[1].args["projectId"] = "'pid-1'"
    /\ wallets[2].args["projectId"] = "'pid-1'"
    /\ wallets[1].args["qrModalOptions"] = "{themeMode:dark}"
    /\ wallets[2].args["qrModalOptions"] = "{themeMode:dark}"

=============================================================================
